---- MODULE Spec2Model ----
(***************************************************************************)
(* Model of src/lib.rs: the Vocab type (a HashMap<String, i32>), its two   *)
(* constructors Vocab::new and Vocab::load, and Vocab::write, Vocab::size  *)
(* and Vocab::show, together with the files they read and write.           *)
(*                                                                         *)
(* A String is a sequence of characters; a character is a one-character    *)
(* TLA+ string.  A file is a record [exists, data].                        *)
(***************************************************************************)
EXTENDS Integers, Sequences, FiniteSets

\* ---------------------------------------------------------------- bounds
MaxTextLen == 5
MaxLines == 3

\* ------------------------------------------------------------ characters
TAB == "\t"
NL == "\n"
APOSTROPHE == "'"

LowerLetters == {"a", "b", "x"}
UpperLetters == {"A"}
DigitChar == <<"0", "1", "2", "3", "4", "5", "6", "7", "8", "9">>
Digits == {DigitChar[i] : i \in 1..10}

\* char::is_alphanumeric
IsAlphanumeric(c) == c \in LowerLetters \cup UpperLetters \cup Digits

\* the closure handed to str::split in tokenize
IsSeparator(c) == ~(IsAlphanumeric(c) \/ c = APOSTROPHE)

\* char lowercasing, as str::to_lowercase applies it to each character
ToLowerChar(c) == IF c = "A" THEN "a" ELSE c

\* str::to_lowercase
ToLowercase(s) == [i \in 1..Len(s) |-> ToLowerChar(s[i])]

\* ------------------------------------------------------------- tokenize
RECURSIVE SplitAcc(_, _, _)
SplitAcc(s, cur, acc) ==
    IF s = <<>> THEN Append(acc, cur)
    ELSE IF IsSeparator(Head(s))
         THEN SplitAcc(Tail(s), <<>>, Append(acc, cur))
         ELSE SplitAcc(Tail(s), Append(cur, Head(s)), acc)

\* text.split(|c| !(c.is_alphanumeric() || c == '\'')): every segment between
\* separators, the empty ones included
SplitText(text) == SplitAcc(text, <<>>, <<>>)

\* the filter left out: empty segments stay in the token stream
KeepSegmentAll(s) == TRUE

\* .filter(|s| !s.is_empty())
KeepSegment(s) == s # <<>>

\* the lowercasing left out
tokenizeNoLower(text) == SelectSeq(SplitText(text), KeepSegment)

tokenize(text) ==
    LET segs == SelectSeq(SplitText(text), KeepSegment)
    IN  [i \in 1..Len(segs) |-> ToLowercase(segs[i])]

\* ------------------------------------------------------------ the map
EmptyMap == <<>>

\* HashMap::insert: a present key has its value replaced
Insert(map, k, v) == [t \in (DOMAIN map) \cup {k} |-> IF t = k THEN v ELSE map[t]]

\* tok += 1 placed after the if: it counts every token
NewStepCountAll(st, term) ==
    IF term \in DOMAIN st.map
    THEN [map |-> st.map, tok |-> st.tok + 1]
    ELSE [map |-> Insert(st.map, term, st.tok), tok |-> st.tok + 1]

\* tok += 1 left out
NewStepNoCount(st, term) ==
    IF term \in DOMAIN st.map
    THEN st
    ELSE [map |-> Insert(st.map, term, st.tok), tok |-> st.tok]

\* one iteration of the loop of Vocab::new over the state (map, tok)
NewStep(st, term) ==
    IF term \in DOMAIN st.map
    THEN st
    ELSE [map |-> Insert(st.map, term, st.tok), tok |-> st.tok + 1]

RECURSIVE NewLoop(_, _)
NewLoop(st, tokens) ==
    IF tokens = <<>> THEN st
    ELSE NewLoop(NewStep(st, Head(tokens)), Tail(tokens))

\* the map Vocab::new builds from the token stream
BuildMap(tokens) == NewLoop([map |-> EmptyMap, tok |-> 0], tokens).map

\* ------------------------------------------------- integers as text
I32Max == 2147483647
I32Min == -I32Max - 1

RECURSIVE UDigits(_)
UDigits(n) ==
    IF n < 10 THEN <<DigitChar[n + 1]>>
    ELSE UDigits(n \div 10) \o <<DigitChar[(n % 10) + 1]>>

\* i32::to_string
to_string(n) == IF n < 0 THEN <<"-">> \o UDigits(-n) ELSE UDigits(n)

DigitVal(c) == CHOOSE d \in 0..9 : DigitChar[d + 1] = c

RECURSIVE DigitsVal(_, _)
DigitsVal(s, acc) ==
    IF s = <<>> THEN acc ELSE DigitsVal(Tail(s), 10 * acc + DigitVal(Head(s)))

\* str::parse::<i32>: an optional sign, then one or more decimal digits, the
\* value within the range of i32
ParseInt(s) ==
    LET signed == s # <<>> /\ Head(s) \in {"+", "-"}
        body == IF signed THEN Tail(s) ELSE s
        mag == DigitsVal(body, 0)
        val == IF signed /\ Head(s) = "-" THEN -mag ELSE mag
    IN  IF body = <<>> \/ (\E i \in 1..Len(body) : body[i] \notin Digits)
        THEN [ok |-> FALSE, val |-> 0]
        ELSE IF val < I32Min \/ val > I32Max
             THEN [ok |-> FALSE, val |-> 0]
             ELSE [ok |-> TRUE, val |-> val]

\* ------------------------------------------------------- lines of a file
RECURSIVE SplitOn(_, _, _, _)
SplitOn(s, sep, cur, acc) ==
    IF s = <<>> THEN Append(acc, cur)
    ELSE IF Head(s) = sep
         THEN SplitOn(Tail(s), sep, <<>>, Append(acc, cur))
         ELSE SplitOn(Tail(s), sep, Append(cur, Head(s)), acc)

\* split('\n') in place of lines(): the empty segment after the last newline
\* is a line
LinesSplit(contents) == SplitOn(contents, NL, <<>>, <<>>)

\* str::lines: the segments ended by a newline, and a last segment without
\* one when it is not empty
Lines(contents) ==
    LET segs == SplitOn(contents, NL, <<>>, <<>>)
    IN  IF segs[Len(segs)] = <<>> THEN SubSeq(segs, 1, Len(segs) - 1) ELSE segs

\* line.splitn(2, '\t'): the part before the first tab, and the rest of the
\* line after it when there is a tab
FirstTab(line) ==
    IF \E i \in 1..Len(line) : line[i] = TAB
    THEN CHOOSE i \in 1..Len(line) : line[i] = TAB /\ \A j \in 1..(i - 1) : line[j] # TAB
    ELSE 0

Splitn2(line) ==
    LET i == FirstTab(line)
    IN  IF i = 0
        THEN [voc |-> line, hasTok |-> FALSE, tok |-> <<>>]
        ELSE [voc |-> SubSeq(line, 1, i - 1), hasTok |-> TRUE,
              tok |-> SubSeq(line, i + 1, Len(line))]

\* a malformed line skipped (continue) in place of the panic
LoadStepSkip(st, line) ==
    LET chunks == Splitn2(line)
        parsed == ParseInt(chunks.tok)
    IN  IF st.panicked THEN st
        ELSE IF ~chunks.hasTok \/ ~parsed.ok
             THEN st
             ELSE [panicked |-> FALSE, map |-> Insert(st.map, chunks.voc, parsed.val)]

\* entry(voc).or_insert(tok) in place of insert: the first line of a term wins
LoadStepFirstWins(st, line) ==
    LET chunks == Splitn2(line)
        parsed == ParseInt(chunks.tok)
    IN  IF st.panicked THEN st
        ELSE IF ~chunks.hasTok \/ ~parsed.ok
             THEN [panicked |-> TRUE, map |-> st.map]
             ELSE IF chunks.voc \in DOMAIN st.map
                  THEN st
                  ELSE [panicked |-> FALSE, map |-> Insert(st.map, chunks.voc, parsed.val)]

\* one iteration of the loop of Vocab::load over the state (panicked, map):
\* expect("No token!") and unwrap() panic, insert replaces
LoadStep(st, line) ==
    LET chunks == Splitn2(line)
        parsed == ParseInt(chunks.tok)
    IN  IF st.panicked THEN st
        ELSE IF ~chunks.hasTok \/ ~parsed.ok
             THEN [panicked |-> TRUE, map |-> st.map]
             ELSE [panicked |-> FALSE, map |-> Insert(st.map, chunks.voc, parsed.val)]

RECURSIVE LoadLoop(_, _)
LoadLoop(st, lines) ==
    IF lines = <<>> THEN st
    ELSE LoadLoop(LoadStep(st, Head(lines)), Tail(lines))

LoadMap(contents) == LoadLoop([panicked |-> FALSE, map |-> EmptyMap], Lines(contents))

\* ------------------------------------------------------------ write, show
\* the orders in which a HashMap with these keys can yield them; the order is
\* that of the hash table, fixed for a map that is not modified
Orders(keys) ==
    {o \in [1..Cardinality(keys) -> keys] : \A i, j \in DOMAIN o : i # j => o[i] # o[j]}

\* contents.push('\n') left out
RecordNoNewline(voc, tok) == voc \o <<TAB>> \o to_string(tok)

\* the four push calls of the loop of Vocab::write
Record(voc, tok) == voc \o <<TAB>> \o to_string(tok) \o <<NL>>

RECURSIVE Serialize(_, _)
Serialize(map, order) ==
    IF order = <<>> THEN <<>>
    ELSE Record(Head(order), map[Head(order)]) \o Serialize(map, Tail(order))

\* the line println! prints in Vocab::show
ShowLine(voc, tok) == <<"  KEY: ">> \o voc \o <<", VALUE: ">> \o to_string(tok)

ShowLines(map, order) == [i \in 1..Len(order) |-> ShowLine(order[i], map[order[i]])]

\* Vocab::size
Size(map) == Cardinality(DOMAIN map)

\* -------------------------------------------------------------- inputs
TextPath == "corpus.txt"
VocabPath == "vocab.tsv"
Paths == {TextPath, VocabPath}

NoFile == [exists |-> FALSE, data |-> <<>>]
FileOf(data) == [exists |-> TRUE, data |-> data]

\* raw texts: every string of at most MaxTextLen of these characters
TextChars == {"a", "A", APOSTROPHE, " "}
Texts == UNION {[1..n -> TextChars] : n \in 0..MaxTextLen}

\* persisted files written by hand: at most MaxLines lines, each empty, or a
\* term followed by nothing or by a tab and an identifier field
LineVocs == {<<"a">>, <<"b">>}
LineToks == {<<"0">>, <<"5">>, <<"-", "1">>, <<"x">>, <<"5", TAB, "0">>}
HandLines == {<<>>} \cup LineVocs \cup {v \o <<TAB>> \o t : v \in LineVocs, t \in LineToks}

RECURSIVE JoinLines(_)
JoinLines(ls) ==
    IF ls = <<>> THEN <<>>
    ELSE IF Len(ls) = 1 THEN Head(ls)
         ELSE Head(ls) \o <<NL>> \o JoinLines(Tail(ls))

HandFiles ==
    LET seqs == UNION {[1..n -> HandLines] : n \in 0..MaxLines}
    IN  {JoinLines(ls) : ls \in seqs} \cup {JoinLines(ls) \o <<NL>> : ls \in seqs}

\* ---------------------------------------------------------------- state
VARIABLES
    file,      \* path -> the file at that path
    vocab,     \* the Vocab the caller holds: [some, map]
    iter,      \* the order in which its HashMap yields its keys
    origin,    \* the constructor that returned it: "none", "new", "load"
    built,     \* history: the map as the constructor returned it
    tokens,    \* history: the token stream of the last Vocab::new
    written,   \* history: the Vocab::new map VocabPath was last written from
    op,        \* the last call
    outcome,   \* how it ended: "ok", "err" (an Err returned), "panic"
    ret,       \* the value the last Vocab::size returned, -1 before
    printed    \* the lines the last call printed on the standard output

vars == <<file, vocab, iter, origin, built, tokens, written, op, outcome, ret, printed>>

NoVocab == [some |-> FALSE, map |-> EmptyMap]
VocabOf(map) == [some |-> TRUE, map |-> map]

Init ==
    /\ \/ /\ \E t \in Texts : file = [p \in Paths |-> IF p = TextPath THEN FileOf(t) ELSE NoFile]
       \/ /\ \E h \in HandFiles : file = [p \in Paths |-> IF p = VocabPath THEN FileOf(h) ELSE NoFile]
       \/ file = [p \in Paths |-> NoFile]
    /\ vocab = NoVocab
    /\ iter = <<>>
    /\ origin = "none"
    /\ built = EmptyMap
    /\ tokens = <<>>
    /\ written = NoVocab
    /\ op = "init"
    /\ outcome = "ok"
    /\ ret = -1
    /\ printed = <<>>

\* a panic unwinds the caller: nothing runs after it
Running == outcome # "panic"

\* a method that took &mut self and drained the map
DrainedSelf == vocab' = VocabOf(EmptyMap) /\ iter' = <<>> /\ UNCHANGED origin

\* the &self receiver of write, size and show: the Vocab is only read
SharedSelf == UNCHANGED <<vocab, iter, origin>>

\* what a panic in a constructor leaves: no Vocab is returned
Panicked(name) ==
    /\ vocab' = NoVocab
    /\ iter' = <<>>
    /\ origin' = "none"
    /\ built' = EmptyMap
    /\ op' = name
    /\ outcome' = "panic"
    /\ ret' = -1

Returned(name, map) ==
    /\ vocab' = VocabOf(map)
    /\ iter' \in Orders(DOMAIN map)
    /\ origin' = name
    /\ built' = map
    /\ op' = name
    /\ outcome' = "ok"
    /\ ret' = -1

\* Vocab::new(fpath): read_file panics when the file cannot be opened
New(fpath) ==
    /\ Running
    /\ IF ~file[fpath].exists
       THEN /\ Panicked("new")
            /\ UNCHANGED tokens
       ELSE /\ tokens' = tokenize(file[fpath].data)
            /\ Returned("new", BuildMap(tokens'))
    /\ printed' = <<>>
    /\ UNCHANGED <<file, written>>

\* Vocab::load(fpath): read_file panics when the file cannot be opened, the
\* loop panics at the first line without a tab or without a valid integer
Load(fpath) ==
    /\ Running
    /\ IF ~file[fpath].exists
       THEN Panicked("load")
       ELSE LET res == LoadMap(file[fpath].data)
            IN  IF res.panicked THEN Panicked("load") ELSE Returned("load", res.map)
    /\ printed' = <<>>
    /\ UNCHANGED <<file, tokens, written>>

\* Vocab::write(&self, fpath): std::fs::write either writes the whole
\* contents, or returns Err with the file as it was (it could not be created)
\* or empty (it was created and truncated, and the write failed)
Write(fpath) ==
    /\ Running
    /\ vocab.some
    /\ LET contents == Serialize(vocab.map, iter)
       IN    \/ /\ file' = [file EXCEPT ![fpath] = FileOf(contents)]
                /\ written' = IF origin = "new" THEN vocab ELSE NoVocab
                /\ outcome' = "ok"
             \/ /\ outcome' = "err"
                /\ \/ UNCHANGED <<file, written>>
                   \/ /\ file' = [file EXCEPT ![fpath] = FileOf(<<>>)]
                      /\ written' = NoVocab
    /\ op' = "write"
    /\ ret' = -1
    /\ printed' = <<>>
    /\ SharedSelf
    /\ UNCHANGED <<built, tokens>>

\* Vocab::size(&self)
SizeCall ==
    /\ Running
    /\ vocab.some
    /\ ret' = Size(vocab.map)
    /\ op' = "size"
    /\ outcome' = "ok"
    /\ printed' = <<>>
    /\ SharedSelf
    /\ UNCHANGED <<file, built, tokens, written>>

\* Vocab::show(&self)
Show ==
    /\ Running
    /\ vocab.some
    /\ printed' = ShowLines(vocab.map, iter)
    /\ op' = "show"
    /\ outcome' = "ok"
    /\ ret' = -1
    /\ SharedSelf
    /\ UNCHANGED <<file, built, tokens, written>>

Next ==
    \/ New(TextPath)
    \/ Load(VocabPath)
    \/ Write(VocabPath)
    \/ SizeCall
    \/ Show

Spec == Init /\ [][Next]_vars

\* ------------------------------------------------- vocabulary of the claims
Range(f) == {f[i] : i \in DOMAIN f}

Text == file[TextPath].data
Persisted == file[VocabPath].data

\* the index of the first occurrence of a token in a token stream
FirstIndex(toks, t) == CHOOSE i \in 1..Len(toks) : toks[i] = t /\ \A j \in 1..(i - 1) : toks[j] # t

\* the maximal runs of alphanumeric-or-apostrophe characters, as index pairs
RunSpans(text) ==
    {r \in (1..Len(text)) \X (1..Len(text)) :
        /\ r[1] <= r[2]
        /\ \A k \in r[1]..r[2] : IsAlphanumeric(text[k]) \/ text[k] = APOSTROPHE
        /\ r[1] = 1 \/ ~(IsAlphanumeric(text[r[1] - 1]) \/ text[r[1] - 1] = APOSTROPHE)
        /\ r[2] = Len(text) \/ ~(IsAlphanumeric(text[r[2] + 1]) \/ text[r[2] + 1] = APOSTROPHE)}

\* the same runs as strings, from left to right
MaximalRuns(text) ==
    LET spans == RunSpans(text)
        nth(n) == CHOOSE r \in spans : Cardinality({q \in spans : q[1] < r[1]}) = n - 1
    IN  [n \in 1..Cardinality(spans) |-> SubSeq(text, nth(n)[1], nth(n)[2])]

Lowered(strs) == [i \in 1..Len(strs) |-> [k \in 1..Len(strs[i]) |-> ToLowerChar(strs[i][k])]]

RECURSIVE Join(_, _)
Join(strs, c) ==
    IF strs = <<>> THEN <<>>
    ELSE IF Len(strs) = 1 THEN Head(strs)
         ELSE Head(strs) \o <<c>> \o Join(Tail(strs), c)

\* characters that are neither alphanumeric nor an apostrophe
Separators == {" ", ".", ",", "-", TAB, NL}

\* a line Vocab::load cannot take: no tab, or no valid integer after the first
Malformed(line) == ~Splitn2(line).hasTok \/ ~ParseInt(Splitn2(line).tok).ok

NonNegativeUnique(map) ==
    /\ \A t \in DOMAIN map : map[t] >= 0
    /\ \A t, u \in DOMAIN map : t # u => map[t] # map[u]

\* C1: a vocabulary built by Vocab::new holds exactly the distinct tokens of
\* the stream, each with the number of distinct tokens that first occur before
\* it; the identifiers are 0..n-1 for n distinct tokens.
C1_FirstOccurrenceIds ==
    origin = "new" =>
        /\ DOMAIN vocab.map = Range(tokens)
        /\ \A t \in DOMAIN vocab.map :
             vocab.map[t] =
                Cardinality({u \in Range(tokens) : FirstIndex(tokens, u) < FirstIndex(tokens, t)})
        /\ Range(vocab.map) = 0..(Cardinality(Range(tokens)) - 1)

\* a repeated token comes before the first occurrence of another one
C1_Witness ==
    /\ origin = "new"
    /\ \E j, k \in 1..Len(tokens) :
         /\ j < k
         /\ \E i \in 1..(j - 1) : tokens[i] = tokens[j]
         /\ \A i \in 1..(k - 1) : tokens[i] # tokens[k]

\* C2: loading the file that Vocab::write wrote from a vocabulary built from
\* text succeeds and gives the same (token, id) pairs, whatever the order of
\* the lines.
C2_RoundTrip ==
    (op = "load" /\ written.some) => (outcome = "ok" /\ vocab.some /\ vocab.map = written.map)

\* a round trip of two or more entries whose first line is not the entry 0
C2_Witness ==
    /\ op = "load"
    /\ written.some
    /\ outcome = "ok"
    /\ Size(written.map) >= 2
    /\ ParseInt(Splitn2(Lines(Persisted)[1]).tok).val # 0

\* C3: every failure of Vocab::new, Vocab::load and Vocab::write reaches the
\* caller as a returned error value: no call ends in a panic.
C3_FailuresAreReturned == outcome \in {"ok", "err"}

\* C4: when a line of the file has no tab, or no valid integer after its
\* first tab, Vocab::load fails and yields no vocabulary.
C4_LoadFailFast ==
    (op = "load" /\ file[VocabPath].exists
        /\ \E i \in 1..Len(Lines(Persisted)) : Malformed(Lines(Persisted)[i]))
    => (outcome = "panic" /\ ~vocab.some)

\* the load failed at a malformed line that follows a line that parsed
C4_Witness ==
    /\ op = "load"
    /\ outcome = "panic"
    /\ file[VocabPath].exists
    /\ Len(Lines(Persisted)) >= 2
    /\ ~Malformed(Lines(Persisted)[1])
    /\ Malformed(Lines(Persisted)[2])

\* C5: a successful Vocab::load holds one entry for each term of the file,
\* and its identifier is the one of the last line with that term.
C5_LastWriteWins ==
    (op = "load" /\ outcome = "ok") =>
        LET ls == Lines(Persisted)
        IN  /\ DOMAIN vocab.map = {Splitn2(ls[i]).voc : i \in 1..Len(ls)}
            /\ \A i \in 1..Len(ls) :
                 (\A j \in (i + 1)..Len(ls) : Splitn2(ls[j]).voc # Splitn2(ls[i]).voc)
                 => vocab.map[Splitn2(ls[i]).voc] = ParseInt(Splitn2(ls[i]).tok).val

\* a term on two lines with different identifiers, and another term
C5_Witness ==
    /\ op = "load"
    /\ outcome = "ok"
    /\ Size(vocab.map) >= 2
    /\ LET ls == Lines(Persisted)
       IN  \E i, j \in 1..Len(ls) :
             /\ i < j
             /\ Splitn2(ls[i]).voc = Splitn2(ls[j]).voc
             /\ ParseInt(Splitn2(ls[i]).tok).val # ParseInt(Splitn2(ls[j]).tok).val

\* C6 as stated: in every vocabulary, built or loaded, the identifiers are
\* non-negative and no two tokens share one.
C6_AllIdsNonNegativeUnique == vocab.some => NonNegativeUnique(vocab.map)

\* C6 amended: in every vocabulary built by Vocab::new the identifiers are
\* non-negative and no two tokens share one.
C6_BuiltIdsNonNegativeUnique == origin = "new" => NonNegativeUnique(vocab.map)

\* a built vocabulary of two or more tokens
C6_Witness == origin = "new" /\ Size(vocab.map) >= 2 /\ Len(tokens) > Size(vocab.map)

\* C7: tokenize returns the maximal runs of alphanumeric-or-apostrophe
\* characters, lowercased, from left to right, none of them empty; and the
\* runs joined by any separator character tokenize to the lowercased runs.
C7_TokenizeRuns ==
    (op = "new" /\ outcome = "ok") =>
        /\ tokens = Lowered(MaximalRuns(Text))
        /\ \A i \in 1..Len(tokens) : tokens[i] # <<>>
        /\ \A c \in Separators :
             /\ IsSeparator(c)
             /\ tokenize(Join(MaximalRuns(Text), c)) = Lowered(MaximalRuns(Text))

\* a text with two separators in a row, an uppercase letter and a repeated token
C7_Witness ==
    /\ op = "new"
    /\ outcome = "ok"
    /\ \E i \in 1..(Len(Text) - 1) : IsSeparator(Text[i]) /\ IsSeparator(Text[i + 1])
    /\ \E i \in 1..Len(Text) : Text[i] \in UpperLetters
    /\ \E i, j \in 1..Len(tokens) : i < j /\ tokens[i] = tokens[j]

\* C8: for a vocabulary built from text, size() is the number of distinct
\* lowercased maximal runs of the text, 0 when there is none.
C8_SizeIsDistinctTokens ==
    (op = "size" /\ origin = "new") => ret = Cardinality(Range(Lowered(MaximalRuns(Text))))

\* size() of a text whose tokens differ only by case, with a second token
C8_Witness ==
    /\ op = "size"
    /\ origin = "new"
    /\ ret = 2
    /\ \E i, j \in 1..Len(MaximalRuns(Text)) :
         /\ MaximalRuns(Text)[i] # MaximalRuns(Text)[j]
         /\ tokens[i] = tokens[j]

\* size() of a text without a token
C8_WitnessEmpty == op = "size" /\ origin = "new" /\ ret = 0 /\ Text # <<>>

\* C9: a successful Vocab::write leaves a file of size() lines, each ended by
\* a newline and of the form token, tab, decimal identifier, and each entry of
\* the map is on exactly one line.
C9_WriteRecords ==
    (op = "write" /\ outcome = "ok") =>
        LET ls == Lines(Persisted)
            rec(t) == t \o <<TAB>> \o to_string(vocab.map[t])
        IN  /\ Len(ls) = Size(vocab.map)
            /\ Cardinality({i \in 1..Len(Persisted) : Persisted[i] = NL}) = Size(vocab.map)
            /\ Persisted = <<>> \/ Persisted[Len(Persisted)] = NL
            /\ \A t \in DOMAIN vocab.map : Cardinality({i \in 1..Len(ls) : ls[i] = rec(t)}) = 1
            /\ \A i \in 1..Len(ls) : \E t \in DOMAIN vocab.map : ls[i] = rec(t)

\* a written vocabulary of two or more entries, one with a negative identifier
C9_Witness ==
    /\ op = "write"
    /\ outcome = "ok"
    /\ Size(vocab.map) >= 2
    /\ \E t \in DOMAIN vocab.map : vocab.map[t] < 0

\* C10: whatever size, show and write calls follow, the vocabulary holds the
\* pairs it held when Vocab::new or Vocab::load returned it.
C10_Immutable == vocab.some => vocab.map = built

\* a failed write that emptied the file, on a vocabulary of two or more tokens
C10_Witness ==
    /\ op = "write"
    /\ outcome = "err"
    /\ Persisted = <<>>
    /\ vocab.some
    /\ Size(vocab.map) >= 2

====
